---- MODULE Spec2Model ----
(***************************************************************************)
(* Path-to-screen resolution and navigation-intent protocol of the         *)
(* flagship-app router: route lookup, the guard chain, the route action,   *)
(* the push / pop-to-root intents handed to the native navigation host,    *)
(* and the promise-based modal result channel.                             *)
(*                                                                         *)
(* Two versions of the navigator live in the repository.  The one with     *)
(* guards and modals (useNavigator of src/unnamed/part_016) is modelled by *)
(* the actions open, runGuards, guardCancel, ... and the specification     *)
(* Spec; the earlier one (src/packages/router/src/hooks.ts) by the actions *)
(* hooks_open, ... and the specification SpecHooks.                        *)
(*                                                                         *)
(* Strings are modelled by their structure: a path string is a record      *)
(* [form, segs, query] where form says how the string starts               *)
(*   "abs": "/a/b"      "rel": "a/b"      "url": "https://host/a/b"        *)
(* segs are its path segments and query says whether "?k=v" follows.       *)
(* A route's path pattern is a sequence of literal and ":param" segments.  *)
(***************************************************************************)
EXTENDS Integers, Sequences, FiniteSets, TLC

VARIABLES
    routes,     \* the Route Table held by the router context (route.routes)
    layout,     \* the Layout Tree built at registration
    call,       \* per open call: the position and locals of the async function
    log,        \* per open call: guards / control calls / actions it invoked
    host,       \* commands received by the native navigation host, in order
    idCounter,  \* the module-level modal name counter
    modals,     \* the modals shown so far, in showModal order
    registered, \* component names registered with the native host by showModal
    reg,        \* the registration of the app: register and the app-launched listener
    linking     \* the component that called useLinking, and the opens it made

vars == <<routes, layout, call, log, host, idCounter, modals, registered, reg, linking>>

-----------------------------------------------------------------------------
(* Bounds of the model *)

\* control-surface calls (cancel / redirect) one guard invocation may make
MaxControlCalls == 2
\* redirect hops one open call is followed through
MaxHops == 1
\* showModal calls
MaxModals == 2
\* resolve / reject calls made on one modal
MaxSettleCalls == 2
\* app-launched events the native host raises
MaxLaunches == 2
\* deep-link URL events the native host raises
MaxUrlEvents == 2

-----------------------------------------------------------------------------
(* Strings, patterns and the matcher *)

Lit(s)   == [kind |-> "lit", v |-> s]
Param(s) == [kind |-> "param", v |-> s]

Str(form, segs, query) == [form |-> form, segs |-> segs, query |-> query]

\* the empty string ''
EmptyString == Str("rel", <<>>, FALSE)
\* placeholder where no string is held
NoStr == Str("none", <<>>, FALSE)

\* One pattern segment against one path segment: a literal matches itself,
\* a named parameter matches any (non-empty) segment.
SegMatches(p, s) == IF p.kind = "lit" THEN s = p.v ELSE TRUE

\* match(pattern)(str): the patterns all start with "/", so only a string
\* that starts with "/" can match; a "?query" tail is not part of a segment
\* (path-to-regexp treats "?" as a delimiter), so a string carrying one
\* matches no pattern; trailing text must be consumed entirely.
match(pattern, str) ==
    /\ str.form = "abs"
    /\ ~str.query
    /\ Len(pattern) = Len(str.segs)
    /\ \A i \in 1..Len(pattern) : SegMatches(pattern[i], str.segs[i])

\* matches.params: the named parameters with the segments they matched
params(pattern, str) ==
    { <<pattern[i].v, str.segs[i]>> :
        i \in { j \in 1..Len(pattern) : pattern[j].kind = "param" } }

\* a lookup that lets a later declaration win: the last matching route
find_lastMatch(table, str) ==
    IF \E i \in 1..Len(table) : match(table[i].path, str)
    THEN CHOOSE i \in 1..Len(table) :
            /\ match(table[i].path, str)
            /\ \A j \in (i+1)..Len(table) : ~match(table[j].path, str)
    ELSE 0

\* a lookup that falls back to the first route when nothing matches
find_defaultFirst(table, str) ==
    IF \E i \in 1..Len(table) : match(table[i].path, str)
    THEN CHOOSE i \in 1..Len(table) :
            /\ match(table[i].path, str)
            /\ \A j \in 1..(i-1) : ~match(table[j].path, str)
    ELSE 1

\* routes.find(it => match(it.path)(str)): index of the first route whose
\* pattern matches, 0 for undefined
find(table, str) ==
    IF \E i \in 1..Len(table) : match(table[i].path, str)
    THEN CHOOSE i \in 1..Len(table) :
            /\ match(table[i].path, str)
            /\ \A j \in 1..(i-1) : ~match(table[j].path, str)
    ELSE 0

\* a pattern segment path-to-regexp cannot compile (a ":" with no name, an
\* unbalanced "(")
Malformed == [kind |-> "malformed", v |-> ":"]

\* match(pattern) throws a TypeError when the pattern does not compile
matchThrows(pattern) == \E i \in 1..Len(pattern) : pattern[i].kind = "malformed"

\* routes.find(it => match(it.path)(str)) throws: the routes are probed in
\* table order up to the first match, and a malformed pattern is reached
\* before any route matched
findThrows(table, str) ==
    \E j \in 1..Len(table) :
        /\ matchThrows(table[j].path)
        /\ \A i \in 1..(j - 1) :
              ~matchThrows(table[i].path) /\ ~match(table[i].path, str)

\* createAppURL: a string with a protocol is parsed as it is, any other is
\* prefixed with 'app://' (and a '/' when it does not start with one).  The
\* URL's pathname always starts with "/" and carries no query.
createAppURL(pathOrUrl) ==
    [ href     |-> IF pathOrUrl.form = "url"
                   THEN pathOrUrl
                   ELSE Str("url", pathOrUrl.segs, pathOrUrl.query),
      pathname |-> Str("abs", pathOrUrl.segs, FALSE),
      search   |-> pathOrUrl.query ]

-----------------------------------------------------------------------------
(* Routes *)

Route(name, path, hasComponent, bottomTab, guards, hasAction) ==
    [ name |-> name, path |-> path, hasComponent |-> hasComponent,
      bottomTab |-> bottomTab, guards |-> guards, hasAction |-> hasAction ]

\* isBottomTab: the route's options carry a bottomTab entry
isBottomTab(route) == route.bottomTab

\* routes.filter(it => isBottomTab(it))
RECURSIVE filterTabs(_)
filterTabs(table) ==
    IF table = <<>> THEN <<>>
    ELSE IF isBottomTab(Head(table))
         THEN <<Head(table)>> \o filterTabs(Tail(table))
         ELSE filterTabs(Tail(table))

\* .reduce((acc, curr, index) => curr.name === route.name ? index : acc, 0)
\* over a 0-based index
RECURSIVE reduceIndex(_, _, _, _)
reduceIndex(tabs, name, index, acc) ==
    IF tabs = <<>> THEN acc
    ELSE reduceIndex(Tail(tabs), name, index + 1,
                     IF Head(tabs).name = name THEN index ELSE acc)

\* the index taken in the whole table instead of among the tabs
getBottomTabIndex_allRoutes(route, table) == reduceIndex(table, route.name, 0, 0)

getBottomTabIndex(route, table) == reduceIndex(filterTabs(table), route.name, 0, 0)

-----------------------------------------------------------------------------
(* The inputs: route tables, the strings given to open and to redirect *)

HomePath   == Str("abs", <<"home">>, FALSE)
SalePath   == Str("abs", <<"shop", "sale">>, FALSE)
ItemPath   == Str("abs", <<"shop", "42">>, FALSE)
CouponPath == Str("abs", <<"cart", "discount", "SAVE10">>, FALSE)
ProfilePath == Str("abs", <<"profile">>, FALSE)
LoginPath  == Str("abs", <<"login">>, FALSE)
AccountPath == Str("abs", <<"account">>, FALSE)
NowherePath == Str("abs", <<"nowhere">>, FALSE)

\* tab routes interleaved with stack routes, two overlapping patterns
\* (/shop/sale before /shop/:id), an action-only route and guarded routes
TableShop ==
    << Route("home",     <<Lit("home")>>,                TRUE,  TRUE,  <<>>, FALSE),
       Route("discount", <<Lit("cart"), Lit("discount"), Param("discount")>>,
                                                         FALSE, FALSE, <<>>, TRUE),
       Route("sale",     <<Lit("shop"), Lit("sale")>>,   TRUE,  FALSE, <<>>, TRUE),
       Route("product",  <<Lit("shop"), Param("id")>>,   TRUE,  TRUE,  <<>>, FALSE),
       Route("profile",  <<Lit("profile")>>,             TRUE,  FALSE, <<"isAuthenticated", "isAdult">>, TRUE),
       Route("login",    <<Lit("login")>>,               TRUE,  FALSE, <<>>, FALSE),
       Route("account",  <<Lit("account")>>,             TRUE,  TRUE,  <<"isAuthenticated">>, TRUE) >>

\* the overlapping patterns in the other order, a guarded tab declared first
TableTabs ==
    << Route("account",  <<Lit("account")>>,             TRUE,  TRUE,  <<"isAuthenticated">>, FALSE),
       Route("product",  <<Lit("shop"), Param("id")>>,   TRUE,  FALSE, <<>>, TRUE),
       Route("sale",     <<Lit("shop"), Lit("sale")>>,   TRUE,  TRUE,  <<>>, FALSE),
       Route("login",    <<Lit("login")>>,               TRUE,  FALSE, <<"rateLimit">>, FALSE),
       Route("home",     <<Lit("home")>>,                TRUE,  TRUE,  <<>>, TRUE) >>

Tables == {TableShop, TableTabs}

\* strings a caller passes to open: plain paths, a relative path, a path
\* with a query string (what the deep-link callback passes), a fully
\* qualified URL, and a path no route matches
OpenPaths ==
    { HomePath, SalePath, ItemPath, CouponPath, ProfilePath, LoginPath,
      AccountPath, NowherePath,
      Str("rel", <<"login">>, FALSE),
      Str("abs", <<"login">>, TRUE),
      Str("url", <<"shop", "sale">>, FALSE),
      Str("abs", <<"home">>, TRUE) }

\* strings a guard passes to redirect
RedirectPaths == { LoginPath, AccountPath, NowherePath, EmptyString }

\* the open calls; Spec runs call 1
CallIds == {1}

\* whether the caller passes passProps of its own to open
PassProps == {TRUE}

-----------------------------------------------------------------------------
(* Registration: the Layout Tree *)

\* registerRoute + addBottomTabToLayout over the routes in order: a route
\* without a Component is skipped, a route with a bottomTab option appends
\* a tab entry
RECURSIVE tabChildren(_)
tabChildren(table) ==
    IF table = <<>> THEN <<>>
    ELSE IF Head(table).hasComponent /\ Head(table).bottomTab
         THEN <<Head(table).name>> \o tabChildren(Tail(table))
         ELSE tabChildren(Tail(table))

\* setRootLayout: with no tab entry the root is a stack on routes[0]
register(table) ==
    IF tabChildren(table) # <<>>
    THEN [kind |-> "bottomTabs", children |-> tabChildren(table)]
    ELSE [kind |-> "stack", children |-> <<table[1].name>>]

-----------------------------------------------------------------------------
(* State of one open call *)

Undefined == [tag |-> "undefined", path |-> NoStr]
False     == [tag |-> "false", path |-> NoStr]
Path(p)   == [tag |-> "path", path |-> p]

\* JavaScript truthiness of a value that is undefined, false or a string:
\* only a non-empty string is truthy
Truthy(v) == v.tag = "path" /\ v.path # EmptyString

IdleCall ==
    [ pc |-> "idle", impl |-> "none", path |-> NoStr, hop |-> 0, route |-> 0, gi |-> 0,
      redirectPath |-> Undefined, ncalls |-> 0, passProps |-> FALSE,
      result |-> "pending" ]

Ev(kind, hop, route, gi, str, args) ==
    [ kind |-> kind, hop |-> hop, route |-> route, gi |-> gi, str |-> str,
      args |-> args ]

Cmd(cmd, by, hop, name, tabIndex, url, passProps) ==
    [ cmd |-> cmd, by |-> by, hop |-> hop, name |-> name,
      tabIndex |-> tabIndex, url |-> url, passProps |-> passProps ]

\* useLinking before its component is mounted: no effect has run
NoLinking ==
    [ mounted |-> "no", initialURL |-> "none", subscribed |-> FALSE,
      events |-> 0, opened |-> <<>> ]

\* the registration state before any code of the router has run: nothing
\* registered, the layout root {}, no listener
NewRegistration(impl, table, hook) ==
    [ impl |-> impl, routes |-> table, hook |-> hook, pc |-> "new",
      onAppLaunched |-> FALSE, components |-> {},
      root |-> [kind |-> "empty", children |-> <<>>],
      listener |-> FALSE, runs |-> <<>>, setRoots |-> <<>> ]

Init ==
    /\ routes \in Tables
    /\ layout = register(routes)
    /\ call = [c \in CallIds |-> IdleCall]
    /\ log = [c \in CallIds |-> <<>>]
    /\ host = <<>>
    /\ idCounter = 0
    /\ modals = <<>>
    /\ registered = {}
    /\ reg = NewRegistration("none", <<>>, FALSE)
    /\ linking = NoLinking

-----------------------------------------------------------------------------
(* useNavigator().open with guards (src/unnamed/part_016) *)

Append1(f, c, e) == [f EXCEPT ![c] = Append(@, e)]

\* The synchronous head of open(path): createAppURL, the route lookup and
\* the early return on no match.  Used for the caller's open and for the
\* recursive open(redirect), which passes neither passProps nor options.
openFrame(cr, path, hop, passProps) ==
    LET url == createAppURL(path)
        matchedRoute == find(routes, url.pathname)
    IN  IF findThrows(routes, url.pathname)
        THEN [cr EXCEPT !.pc = "done", !.path = path, !.hop = hop,
                        !.route = 0, !.passProps = passProps,
                        !.result = IF hop = 0 THEN "rejected" ELSE "fulfilled"]
        ELSE IF matchedRoute = 0
        THEN [cr EXCEPT !.pc = "done", !.path = path, !.hop = hop,
                        !.route = 0, !.passProps = passProps,
                        !.result = "fulfilled"]
        ELSE [cr EXCEPT !.pc = "runGuards", !.path = path, !.hop = hop,
                        !.route = matchedRoute, !.gi = 1,
                        !.redirectPath = Undefined, !.ncalls = 0,
                        !.passProps = passProps]

openEvent(path, hop) ==
    Ev("open", hop,
       IF findThrows(routes, createAppURL(path).pathname) THEN 0
       ELSE find(routes, createAppURL(path).pathname),
       0, path, {})

\* a caller invokes open(path, passProps, options)
open(c, path, passProps) ==
    /\ call[c].pc = "idle"
    /\ call' = [call EXCEPT ![c] = openFrame([@ EXCEPT !.impl = "part_016"],
                                              path, 0, passProps)]
    /\ log' = Append1(log, c, openEvent(path, 0))
    /\ UNCHANGED <<routes, layout, reg, linking, host, idCounter, modals, registered>>

\* runGuards, one turn of the for loop: with no decision taken yet the next
\* guard is invoked and awaited
runGuards(c) ==
    LET cr == call[c]
        guards == routes[cr.route].guards
    IN  /\ cr.pc = "runGuards"
        /\ cr.gi <= Len(guards)
        /\ cr.redirectPath = Undefined
        /\ call' = [call EXCEPT ![c].pc = "inGuard", ![c].ncalls = 0]
        /\ log' = Append1(log, c,
                    Ev("guard", cr.hop, cr.route, cr.gi,
                       createAppURL(cr.path).href, {}))
        /\ UNCHANGED <<routes, layout, reg, linking, host, idCounter, modals, registered>>

\* a cancel that writes a decision variable shared by every chain in flight
cancel_shared(c) ==
    LET cr == call[c]
    IN  /\ cr.pc = "inGuard"
        /\ cr.ncalls < MaxControlCalls
        /\ call' = [d \in DOMAIN call |->
                      IF d = c
                      THEN [call[d] EXCEPT !.redirectPath = False, !.ncalls = @ + 1]
                      ELSE IF call[d].pc \in {"inGuard", "runGuards"}
                      THEN [call[d] EXCEPT !.redirectPath = False]
                      ELSE call[d]]
        /\ log' = Append1(log, c, Ev("cancel", cr.hop, cr.route, cr.gi, NoStr, {}))
        /\ UNCHANGED <<routes, layout, reg, linking, host, idCounter, modals, registered>>

\* the running guard calls next.cancel(): redirectPath = false
cancel(c) ==
    LET cr == call[c]
    IN  /\ cr.pc = "inGuard"
        /\ cr.ncalls < MaxControlCalls
        /\ call' = [call EXCEPT ![c].redirectPath = False,
                                ![c].ncalls = @ + 1]
        /\ log' = Append1(log, c, Ev("cancel", cr.hop, cr.route, cr.gi, NoStr, {}))
        /\ UNCHANGED <<routes, layout, reg, linking, host, idCounter, modals, registered>>

\* the running guard calls next.redirect(path): redirectPath = path
redirect(c, path) ==
    LET cr == call[c]
    IN  /\ cr.pc = "inGuard"
        /\ cr.ncalls < MaxControlCalls
        /\ cr.hop < MaxHops
        /\ call' = [call EXCEPT ![c].redirectPath = Path(path),
                                ![c].ncalls = @ + 1]
        /\ log' = Append1(log, c, Ev("redirect", cr.hop, cr.route, cr.gi, path, {}))
        /\ UNCHANGED <<routes, layout, reg, linking, host, idCounter, modals, registered>>

\* a loop that does not move on to the next guard when one has settled
guardSettled_sameGuard(c, outcome) ==
    LET cr == call[c]
    IN  /\ cr.pc = "inGuard"
        /\ call' = [call EXCEPT ![c].pc = "runGuards"]
        /\ log' = Append1(log, c,
                    Ev("settled", cr.hop, cr.route, cr.gi, NoStr,
                       {<<"outcome", outcome>>}))
        /\ UNCHANGED <<routes, layout, reg, linking, host, idCounter, modals, registered>>

\* the awaited guard settles: it returned / its promise fulfilled ("ok"),
\* or it threw / its promise rejected ("throw"), which the catch in the
\* loop body logs; either way the loop goes on to its next turn
guardSettled(c, outcome) ==
    LET cr == call[c]
    IN  /\ cr.pc = "inGuard"
        /\ call' = [call EXCEPT ![c].pc = "runGuards", ![c].gi = @ + 1]
        /\ log' = Append1(log, c,
                    Ev("settled", cr.hop, cr.route, cr.gi, NoStr,
                       {<<"outcome", outcome>>}))
        /\ UNCHANGED <<routes, layout, reg, linking, host, idCounter, modals, registered>>

\* an open that hands its own passProps and options on to open(redirect)
guardsReturned_keepsProps(c) ==
    LET cr == call[c]
        guards == routes[cr.route].guards
    IN  /\ cr.pc = "runGuards"
        /\ cr.gi > Len(guards) \/ cr.redirectPath # Undefined
        /\ IF Truthy(cr.redirectPath)
           THEN /\ call' = [call EXCEPT ![c] =
                                openFrame(@, cr.redirectPath.path, cr.hop + 1, cr.passProps)]
                /\ log' = Append1(log, c, openEvent(cr.redirectPath.path, cr.hop + 1))
           ELSE IF cr.redirectPath = False
           THEN /\ call' = [call EXCEPT ![c].pc = "done", ![c].result = "fulfilled"]
                /\ log' = log
           ELSE /\ call' = [call EXCEPT ![c].pc = "action"]
                /\ log' = log
        /\ UNCHANGED <<routes, layout, reg, linking, host, idCounter, modals, registered>>

\* runGuards returns redirectPath (a decision was taken, or the guards are
\* exhausted or absent) and open acts on it: a truthy value re-invokes
\* open(redirect), false returns, anything else goes on to the action
guardsReturned(c) ==
    LET cr == call[c]
        guards == routes[cr.route].guards
    IN  /\ cr.pc = "runGuards"
        /\ cr.gi > Len(guards) \/ cr.redirectPath # Undefined
        /\ IF Truthy(cr.redirectPath)
           THEN /\ call' = [call EXCEPT ![c] =
                                openFrame(@, cr.redirectPath.path, cr.hop + 1, FALSE)]
                /\ log' = Append1(log, c, openEvent(cr.redirectPath.path, cr.hop + 1))
           ELSE IF cr.redirectPath = False
           THEN /\ call' = [call EXCEPT ![c].pc = "done", ![c].result = "fulfilled"]
                /\ log' = log
           ELSE /\ call' = [call EXCEPT ![c].pc = "action"]
                /\ log' = log
        /\ UNCHANGED <<routes, layout, reg, linking, host, idCounter, modals, registered>>

\* await matchedRoute.action?.(url.href, res ? res.params : {}, query)
action(c) ==
    LET cr == call[c]
        matchedRoute == routes[cr.route]
        url == createAppURL(cr.path)
    IN  /\ cr.pc = "action"
        /\ cr.impl = "part_016"
        /\ IF matchedRoute.hasAction
           THEN /\ call' = [call EXCEPT ![c].pc = "inAction"]
                /\ log' = Append1(log, c,
                            Ev("action", cr.hop, cr.route, 0, url.href,
                               IF match(matchedRoute.path, url.pathname)
                               THEN params(matchedRoute.path, url.pathname)
                               ELSE {}))
           ELSE /\ call' = [call EXCEPT ![c].pc = "navigate"]
                /\ log' = log
        /\ UNCHANGED <<routes, layout, reg, linking, host, idCounter, modals, registered>>

\* an action whose promise never settles
actionSettled_never(c, outcome) ==
    /\ call[c].pc = "inAction"
    /\ call[c].impl = "part_016"
    /\ UNCHANGED vars

\* the action returned / fulfilled ("ok"), threw ("throw") or its promise
\* rejected ("reject"); the try / catch around the await swallows both
actionSettled(c, outcome) ==
    LET cr == call[c]
    IN  /\ cr.pc = "inAction"
        /\ cr.impl = "part_016"
        /\ call' = [call EXCEPT ![c].pc = "navigate"]
        /\ log' = Append1(log, c,
                    Ev("actionSettled", cr.hop, cr.route, 0, NoStr,
                       {<<"outcome", outcome>>}))
        /\ UNCHANGED <<routes, layout, reg, linking, host, idCounter, modals, registered>>

\* a push that refuses a route that has guards
push_guarded(c, path, passProps) ==
    LET matchedRoute == find(routes, path)
    IN  IF matchedRoute = 0 \/ routes[matchedRoute].guards # <<>>
        THEN <<>>
        ELSE << Cmd("push", c, call[c].hop, routes[matchedRoute].name, 0,
                    path, passProps) >>

\* push(path, passProps, options): its own lookup, on the string as given
push(c, path, passProps) ==
    LET matchedRoute == find(routes, path)
    IN  IF matchedRoute = 0
        THEN <<>>
        ELSE << Cmd("push", c, call[c].hop, routes[matchedRoute].name, 0,
                    path, passProps) >>

\* popToRoot({...options, bottomTabs: {currentTabIndex}}): the options of
\* the caller travel with the command (they are passed together with
\* passProps, so the one flag stands for both)
popToRoot(c, tabIndex, options) ==
    << Cmd("popToRoot", c, call[c].hop, "", tabIndex, NoStr, options) >>

\* the tail of open: no screen returns, a tab pops to root, else push
\* (whose own lookup may throw on a malformed pattern: see navigate)
intent(c) ==
    LET cr == call[c]
        matchedRoute == routes[cr.route]
    IN  IF ~matchedRoute.hasComponent THEN <<>>
        ELSE IF isBottomTab(matchedRoute)
        THEN popToRoot(c, getBottomTabIndex(matchedRoute, routes), cr.passProps)
        ELSE push(c, cr.path, cr.passProps)

\* a navigator that hands a command to the host only while no other open
\* call is awaiting a guard
navigate_exclusive(c) ==
    LET cr == call[c]
        cmds == intent(c)
    IN  /\ cr.pc = "navigate"
        /\ cr.impl = "part_016"
        /\ \A d \in DOMAIN call \ {c} : call[d].pc # "inGuard"
        /\ host' = host \o cmds
        /\ call' = IF cmds = <<>>
                   THEN [call EXCEPT ![c].pc = "done", ![c].result = "fulfilled"]
                   ELSE [call EXCEPT ![c].pc = "native"]
        /\ UNCHANGED <<routes, layout, reg, linking, log, idCounter, modals, registered>>

navigate(c) ==
    LET cr == call[c]
        pushThrows == /\ routes[cr.route].hasComponent
                      /\ ~isBottomTab(routes[cr.route])
                      /\ findThrows(routes, cr.path)
        cmds == IF pushThrows THEN <<>> ELSE intent(c)
    IN  /\ cr.pc = "navigate"
        /\ cr.impl = "part_016"
        /\ host' = host \o cmds
        /\ call' = IF pushThrows
                   THEN [call EXCEPT ![c].pc = "done",
                                     ![c].result = IF cr.hop = 0 THEN "rejected"
                                                   ELSE "fulfilled"]
                   ELSE IF cmds = <<>>
                   THEN [call EXCEPT ![c].pc = "done", ![c].result = "fulfilled"]
                   ELSE [call EXCEPT ![c].pc = "native"]
        /\ UNCHANGED <<routes, layout, reg, linking, log, idCounter, modals, registered>>

\* the native host settles the promise of the command open returned.  A
\* rejection reaches the caller of the outermost open; the open that a
\* redirect re-invoked is awaited inside the try, whose catch returns.
nativeSettled(c, ok) ==
    LET cr == call[c]
    IN  /\ cr.pc = "native"
        /\ cr.impl = "part_016"
        /\ call' = [call EXCEPT ![c].pc = "done",
                                ![c].result = IF ok \/ cr.hop > 0
                                              THEN "fulfilled" ELSE "rejected"]
        /\ UNCHANGED <<routes, layout, reg, linking, log, host, idCounter, modals, registered>>

-----------------------------------------------------------------------------
(* useNavigator().open without guards (src/packages/router/src/hooks.ts) *)

\* open(path): the lookup is made on the string as given; no match returns
hooks_open(c, path, passProps) ==
    LET matchedRoute == find(routes, path)
    IN  /\ call[c].pc = "idle"
        /\ call' = [call EXCEPT ![c] =
                [@ EXCEPT !.impl = "hooks.ts", !.path = path,
                          !.passProps = passProps, !.route = matchedRoute,
                          !.pc = IF matchedRoute = 0 THEN "done" ELSE "action",
                          !.result = IF matchedRoute = 0 THEN "fulfilled"
                                     ELSE "pending"]]
        /\ log' = Append1(log, c, Ev("open", 0, matchedRoute, 0, path, {}))
        /\ UNCHANGED <<routes, layout, reg, linking, host, idCounter, modals, registered>>

\* matchedRoute.action?.(): the action is called with no argument
hooks_action(c) ==
    LET cr == call[c]
        matchedRoute == routes[cr.route]
    IN  /\ cr.pc = "action"
        /\ cr.impl = "hooks.ts"
        /\ IF matchedRoute.hasAction
           THEN /\ call' = [call EXCEPT ![c].pc = "inAction"]
                /\ log' = Append1(log, c, Ev("action", 0, cr.route, 0, NoStr, {}))
           ELSE /\ call' = [call EXCEPT ![c].pc = "navigate"]
                /\ log' = log
        /\ UNCHANGED <<routes, layout, reg, linking, host, idCounter, modals, registered>>

\* the action threw before it returned a promise: there is no promise to
\* call .catch on and no try around the call, so open's promise rejects
hooks_actionThrew(c) ==
    LET cr == call[c]
    IN  /\ cr.pc = "inAction"
        /\ cr.impl = "hooks.ts"
        /\ call' = [call EXCEPT ![c].pc = "done", ![c].result = "rejected"]
        /\ log' = Append1(log, c,
                    Ev("actionSettled", 0, cr.route, 0, NoStr,
                       {<<"outcome", "throw">>}))
        /\ UNCHANGED <<routes, layout, reg, linking, host, idCounter, modals, registered>>

\* the promise the action returned settles; .catch(() => {}) turns a
\* rejection into a fulfilment
hooks_actionSettled(c, outcome) ==
    LET cr == call[c]
    IN  /\ cr.pc = "inAction"
        /\ cr.impl = "hooks.ts"
        /\ call' = [call EXCEPT ![c].pc = "navigate"]
        /\ log' = Append1(log, c,
                    Ev("actionSettled", 0, cr.route, 0, NoStr,
                       {<<"outcome", outcome>>}))
        /\ UNCHANGED <<routes, layout, reg, linking, host, idCounter, modals, registered>>

\* if (matchedRoute?.Component) return; then a tab pops to root, else push
hooks_intent(c) ==
    LET cr == call[c]
        matchedRoute == routes[cr.route]
    IN  IF matchedRoute.hasComponent THEN <<>>
        ELSE IF isBottomTab(matchedRoute)
        THEN popToRoot(c, getBottomTabIndex(matchedRoute, routes), cr.passProps)
        ELSE push(c, cr.path, cr.passProps)

hooks_navigate(c) ==
    LET cr == call[c]
        cmds == hooks_intent(c)
    IN  /\ cr.pc = "navigate"
        /\ cr.impl = "hooks.ts"
        /\ host' = host \o cmds
        /\ call' = IF cmds = <<>>
                   THEN [call EXCEPT ![c].pc = "done", ![c].result = "fulfilled"]
                   ELSE [call EXCEPT ![c].pc = "native"]
        /\ UNCHANGED <<routes, layout, reg, linking, log, idCounter, modals, registered>>

\* the native host settles the promise of the command open returned
hooks_nativeSettled(c, ok) ==
    LET cr == call[c]
    IN  /\ cr.pc = "native"
        /\ cr.impl = "hooks.ts"
        /\ call' = [call EXCEPT ![c].pc = "done",
                                ![c].result = IF ok THEN "fulfilled" ELSE "rejected"]
        /\ UNCHANGED <<routes, layout, reg, linking, log, host, idCounter, modals, registered>>

-----------------------------------------------------------------------------
Next ==
    \/ \E c \in CallIds, path \in OpenPaths, passProps \in PassProps :
            open(c, path, passProps)
    \/ \E c \in CallIds : runGuards(c)
    \/ \E c \in CallIds : cancel(c)
    \/ \E c \in CallIds, path \in RedirectPaths : redirect(c, path)
    \/ \E c \in CallIds, outcome \in {"ok", "throw"} : guardSettled(c, outcome)
    \/ \E c \in CallIds : guardsReturned(c)
    \/ \E c \in CallIds : action(c)
    \/ \E c \in CallIds, outcome \in {"ok", "throw", "reject"} : actionSettled(c, outcome)
    \/ \E c \in CallIds : navigate(c)
    \/ \E c \in CallIds, ok \in BOOLEAN : nativeSettled(c, ok)
    \/ \E c \in CallIds, path \in OpenPaths, passProps \in PassProps :
            hooks_open(c, path, passProps)
    \/ \E c \in CallIds : hooks_action(c)
    \/ \E c \in CallIds : hooks_actionThrew(c)
    \/ \E c \in CallIds, outcome \in {"ok", "reject"} : hooks_actionSettled(c, outcome)
    \/ \E c \in CallIds : hooks_navigate(c)
    \/ \E c \in CallIds, ok \in BOOLEAN : hooks_nativeSettled(c, ok)

Spec == Init /\ [][Next]_vars

-----------------------------------------------------------------------------
(* useNavigator().showModal: the modal result channel (src/unnamed/part_016) *)

\* values a modal screen resolves with
Values == {"a", "b"}

Pending       == [state |-> "pending", value |-> "none"]
Fulfilled(v)  == [state |-> "fulfilled", value |-> v]
Rejected      == [state |-> "rejected", value |-> "none"]

\* a result channel that settles again on every resolve
res_resettles(promise, v) == Fulfilled(v)

\* res(data) / rej() of the Promise executor: the first call settles the
\* promise, a call on a settled promise does nothing
res(promise, v) == IF promise.state = "pending" THEN Fulfilled(v) ELSE promise
rej(promise)    == IF promise.state = "pending" THEN Rejected ELSE promise

\* navigator instances (useNavigator() of two mounted screens) that show
\* modals
Navigators == {"n1", "n2"}

\* a registration name no counter feeds
modalName_fixed(counter) == 0

\* `Modal_${idCounter}`: the registration name is the counter's value
modalName(counter) == counter

\* the modal the screen on top of the modal stack belongs to
useComponentId_top(ms, m) == Len(ms)

\* useModal: componentId = useComponentId(), the component id the native
\* host gave the modal's own screen (ComponentIdContext of modal m)
useComponentId(ms, m) == m

\* Navigation.dismissModal(componentId): the host receives one more
\* dismiss-modal command for that component and takes it off display
dismissModal(ms, componentId) ==
    [ms EXCEPT ![componentId].dismissCmds = @ + 1,
               ![componentId].displayed = FALSE]

\* showModal(Component, data, options) of navigator nav: a name from the
\* module-level counter, the counter incremented, the component registered
\* under the name, a pending promise, and the modal shown by
\* Navigation.showModal
showModal(nav) ==
    LET name == modalName(idCounter)
    IN  /\ Len(modals) < MaxModals
        /\ idCounter' = idCounter + 1
        /\ registered' = registered \cup {name}
        /\ modals' = Append(modals,
                        [ name |-> name, by |-> nav, promise |-> Pending,
                          displayed |-> TRUE, calls |-> <<>>,
                          dismissCmds |-> 0 ])
        /\ UNCHANGED <<routes, layout, reg, linking, call, log, host>>

\* the screen of modal m calls resolve(data): res(data), then
\* Navigation.dismissModal(componentId)
resolve(m, data) ==
    /\ m \in DOMAIN modals
    /\ Len(modals[m].calls) < MaxSettleCalls
    /\ modals' = dismissModal(
                    [modals EXCEPT ![m].promise = res(@, data),
                                   ![m].calls = Append(@, [kind |-> "resolve", value |-> data])],
                    useComponentId(modals, m))
    /\ UNCHANGED <<routes, layout, reg, linking, call, log, host, idCounter, registered>>

\* the screen of modal m calls reject(): rej(), then
\* Navigation.dismissModal(componentId)
reject(m) ==
    /\ m \in DOMAIN modals
    /\ Len(modals[m].calls) < MaxSettleCalls
    /\ modals' = dismissModal(
                    [modals EXCEPT ![m].promise = rej(@),
                                   ![m].calls = Append(@, [kind |-> "reject", value |-> "none"])],
                    useComponentId(modals, m))
    /\ UNCHANGED <<routes, layout, reg, linking, call, log, host, idCounter, registered>>

\* the native host tears the modal down itself (back button, swipe): no
\* code of showModal runs
nativeTeardown(m) ==
    /\ m \in DOMAIN modals
    /\ modals[m].displayed
    /\ modals' = [modals EXCEPT ![m].displayed = FALSE]
    /\ UNCHANGED <<routes, layout, reg, linking, call, log, host, idCounter, registered>>

NextModal ==
    \/ \E nav \in Navigators : showModal(nav)
    \/ \E m \in 1..MaxModals, data \in Values : resolve(m, data)
    \/ \E m \in 1..MaxModals : reject(m)
    \/ \E m \in 1..MaxModals : nativeTeardown(m)

SpecModal == Init /\ [][NextModal]_vars

-----------------------------------------------------------------------------
(* register and the app-launched listener: src/packages/router/src/router.tsx
   and the two versions of the class in FlagshipAppRouter.tsx *)

\* route tables given to register
RegTables ==
    { <<>>,
      << Route("discount", <<Lit("cart"), Lit("discount"), Param("discount")>>, FALSE, FALSE, <<>>, TRUE) >>,
      << Route("discount", <<Lit("cart"), Lit("discount"), Param("discount")>>, FALSE, FALSE, <<>>, TRUE),
         Route("login", <<Lit("login")>>, TRUE, FALSE, <<>>, FALSE),
         Route("sale", <<Lit("shop"), Lit("sale")>>, TRUE, FALSE, <<>>, TRUE) >>,
      << Route("login", <<Lit("login")>>, TRUE, FALSE, <<>>, FALSE),
         Route("sale", <<Lit("shop"), Lit("sale")>>, TRUE, FALSE, <<>>, TRUE) >>,
      << Route("discount", <<Lit("cart"), Lit("discount"), Param("discount")>>, FALSE, TRUE, <<>>, TRUE),
         Route("login", <<Lit("login")>>, TRUE, FALSE, <<>>, FALSE) >>,
      TableShop }

RegImpls == {"router.tsx", "FlagshipAppRouter.1", "FlagshipAppRouter.2"}

\* registerScreen / registerRoute over the routes: the names handed to
\* Navigation.registerComponent (a route without a Component is skipped)
registerScreen(table) ==
    { table[i].name : i \in { j \in 1..Len(table) : table[j].hasComponent } }

\* registerBottomTab of the class over the routes in order: every route with
\* a bottomTab option appends a tab entry, with or without a Component
RECURSIVE registerBottomTab(_)
registerBottomTab(table) ==
    IF table = <<>> THEN <<>>
    ELSE IF Head(table).bottomTab
         THEN <<Head(table).name>> \o registerBottomTab(Tail(table))
         ELSE registerBottomTab(Tail(table))

\* Navigation.setRoot(layout) at the end of listener run k
setRoot(r, k) ==
    Append(r.setRoots, [ root |-> r.root, run |-> k,
                         registered |-> r.pc = "registered" ])

\* router.tsx register(): every route registered, the layout built, the
\* fallback stack on routes[0] (a TypeError on an empty route list), the
\* listener armed
router_register ==
    /\ reg.impl = "router.tsx"
    /\ reg.pc = "new"
    /\ reg' = IF reg.routes = <<>>
              THEN [reg EXCEPT !.pc = "failed"]
              ELSE [reg EXCEPT !.pc = "registered",
                               !.components = registerScreen(reg.routes),
                               !.root = register(reg.routes),
                               !.onAppLaunched = reg.hook,
                               !.listener = TRUE]
    /\ UNCHANGED <<routes, layout, linking, call, log, host, idCounter, modals, registered>>

\* FlagshipAppRouter.register (first version of the class)
FlagshipAppRouter_register ==
    /\ reg.impl = "FlagshipAppRouter.1"
    /\ reg.pc = "new"
    /\ reg' = IF reg.routes = <<>>
              THEN [reg EXCEPT !.pc = "failed"]
              ELSE [reg EXCEPT !.pc = "registered",
                               !.components = registerScreen(reg.routes),
                               !.root = IF registerBottomTab(reg.routes) # <<>>
                                        THEN [kind |-> "bottomTabs",
                                              children |-> registerBottomTab(reg.routes)]
                                        ELSE [kind |-> "stack",
                                              children |-> <<reg.routes[1].name>>],
                               !.onAppLaunched = reg.hook,
                               !.listener = TRUE]
    /\ UNCHANGED <<routes, layout, linking, call, log, host, idCounter, modals, registered>>

\* FlagshipAppRouter constructor (second version): the listener is armed
\* when the shared instance is created
FlagshipAppRouter2_constructor ==
    /\ reg.impl = "FlagshipAppRouter.2"
    /\ reg.pc = "new"
    /\ reg' = [reg EXCEPT !.pc = "constructed", !.listener = TRUE]
    /\ UNCHANGED <<routes, layout, linking, call, log, host, idCounter, modals, registered>>

\* FlagshipAppRouter.register (second version): the hook stored, the routes
\* registered; no fallback root
FlagshipAppRouter2_register ==
    /\ reg.impl = "FlagshipAppRouter.2"
    /\ reg.pc = "constructed"
    /\ reg' = [reg EXCEPT !.pc = "registered",
                          !.components = registerScreen(reg.routes),
                          !.root = IF registerBottomTab(reg.routes) # <<>>
                                   THEN [kind |-> "bottomTabs",
                                         children |-> registerBottomTab(reg.routes)]
                                   ELSE @,
                          !.onAppLaunched = reg.hook]
    /\ UNCHANGED <<routes, layout, linking, call, log, host, idCounter, modals, registered>>

\* the native host raises the app-launched event and the listener runs up
\* to its await: with no hook it hands the root; a hook that throws is
\* caught by router.tsx's try/catch and rejects the listener of the class
\* (its .catch is never reached); a hook that returns a promise is awaited
appLaunched(behaviour) ==
    LET k == Len(reg.runs) + 1
        Run(state, hook) == Append(reg.runs, [state |-> state, hook |-> hook])
    IN  /\ reg.listener
        /\ Len(reg.runs) < MaxLaunches
        /\ reg' =
             IF ~reg.onAppLaunched
             THEN [reg EXCEPT !.runs = Run("done", "none"),
                              !.setRoots = setRoot(reg, k)]
             ELSE IF behaviour = "returns"
             THEN [reg EXCEPT !.runs = Run("awaiting", "pending")]
             ELSE IF reg.impl = "router.tsx"
             THEN [reg EXCEPT !.runs = Run("done", "threw"),
                              !.setRoots = setRoot(reg, k)]
             ELSE [reg EXCEPT !.runs = Run("rejected", "threw")]
        /\ UNCHANGED <<routes, layout, linking, call, log, host, idCounter, modals, registered>>

\* the promise of the hook awaited by listener run k settles: fulfilled or
\* rejected (swallowed), the root is handed
onAppLaunchedSettled(k, outcome) ==
    /\ k \in DOMAIN reg.runs
    /\ reg.runs[k].state = "awaiting"
    /\ reg' = [reg EXCEPT !.runs[k] = [state |-> "done", hook |-> outcome],
                          !.setRoots = setRoot(reg, k)]
    /\ UNCHANGED <<routes, layout, linking, call, log, host, idCounter, modals, registered>>

InitRegister ==
    /\ routes = TableShop
    /\ layout = register(routes)
    /\ call = [c \in CallIds |-> IdleCall]
    /\ log = [c \in CallIds |-> <<>>]
    /\ host = <<>>
    /\ idCounter = 0
    /\ modals = <<>>
    /\ registered = {}
    /\ reg \in { NewRegistration(impl, table, hook) :
                    impl \in RegImpls, table \in RegTables, hook \in BOOLEAN }
    /\ linking = NoLinking

NextRegister ==
    \/ router_register
    \/ FlagshipAppRouter_register
    \/ FlagshipAppRouter2_constructor
    \/ FlagshipAppRouter2_register
    \/ \E behaviour \in {"returns", "throws"} : appLaunched(behaviour)
    \/ \E k \in 1..MaxLaunches, outcome \in {"fulfilled", "rejected"} :
          onAppLaunchedSettled(k, outcome)

SpecRegister == InitRegister /\ [][NextRegister]_vars

-----------------------------------------------------------------------------
(* Independent open calls in flight at the same time (src/unnamed/part_016) *)

\* two open invocations, numbered in the order they are made
ConcurrentCallIds == {1, 2}

\* both are opens of guarded routes
ConcurrentPaths == {ProfilePath, AccountPath}

\* where their guards redirect to
ConcurrentRedirects == {LoginPath}

InitConcurrent ==
    /\ routes = TableShop
    /\ layout = register(routes)
    /\ call = [c \in ConcurrentCallIds |-> IdleCall]
    /\ log = [c \in ConcurrentCallIds |-> <<>>]
    /\ host = <<>>
    /\ idCounter = 0
    /\ modals = <<>>
    /\ registered = {}
    /\ reg = NewRegistration("none", <<>>, FALSE)
    /\ linking = NoLinking

NextConcurrent ==
    \/ \E c \in ConcurrentCallIds, path \in ConcurrentPaths, passProps \in PassProps :
            /\ \A d \in ConcurrentCallIds : d < c => call[d].pc # "idle"
            /\ open(c, path, passProps)
    \/ \E c \in ConcurrentCallIds : runGuards(c)
    \/ \E c \in ConcurrentCallIds : cancel(c)
    \/ \E c \in ConcurrentCallIds, path \in ConcurrentRedirects : redirect(c, path)
    \/ \E c \in ConcurrentCallIds, outcome \in {"ok", "throw"} : guardSettled(c, outcome)
    \/ \E c \in ConcurrentCallIds : guardsReturned(c)
    \/ \E c \in ConcurrentCallIds : action(c)
    \/ \E c \in ConcurrentCallIds, outcome \in {"ok", "throw", "reject"} :
            actionSettled(c, outcome)
    \/ \E c \in ConcurrentCallIds : navigate(c)
    \/ \E c \in ConcurrentCallIds, ok \in BOOLEAN : nativeSettled(c, ok)

SpecConcurrent == InitConcurrent /\ [][NextConcurrent]_vars

-----------------------------------------------------------------------------
(* One open call whose awaited promises all settle (src/unnamed/part_016) *)

\* opens of a guarded route whose guard may redirect to another guarded
\* route, of a route with an action, and of a path no route matches
LivePaths == {AccountPath, LoginPath, HomePath, NowherePath}

LiveRedirects == {LoginPath, AccountPath}

InitLive ==
    /\ routes = TableTabs
    /\ layout = register(routes)
    /\ call = [c \in CallIds |-> IdleCall]
    /\ log = [c \in CallIds |-> <<>>]
    /\ host = <<>>
    /\ idCounter = 0
    /\ modals = <<>>
    /\ registered = {}
    /\ reg = NewRegistration("none", <<>>, FALSE)
    /\ linking = NoLinking

\* the steps open takes by itself once what it awaits has settled, and the
\* settling of the promises it awaits
Settles ==
    \/ \E c \in CallIds : runGuards(c)
    \/ \E c \in CallIds, outcome \in {"ok", "throw"} : guardSettled(c, outcome)
    \/ \E c \in CallIds : guardsReturned(c)
    \/ \E c \in CallIds : action(c)
    \/ \E c \in CallIds, outcome \in {"ok", "throw", "reject"} : actionSettled(c, outcome)
    \/ \E c \in CallIds : navigate(c)
    \/ \E c \in CallIds, ok \in BOOLEAN : nativeSettled(c, ok)

NextLive ==
    \/ \E c \in CallIds, path \in LivePaths, passProps \in PassProps :
            open(c, path, passProps)
    \/ \E c \in CallIds : cancel(c)
    \/ \E c \in CallIds, path \in LiveRedirects : redirect(c, path)
    \/ Settles

\* every promise open awaits settles, and the event loop runs open on
SpecLive == InitLive /\ [][NextLive]_vars /\ WF_vars(Settles)

-----------------------------------------------------------------------------
(* open on a Route Table with a malformed pattern (src/unnamed/part_016) *)

\* a malformed pattern declared first, and one declared between
\* well-formed routes
TableBrokenFirst ==
    << Route("broken",  <<Lit("shop"), Malformed>>, TRUE,  FALSE, <<>>, FALSE),
       Route("login",   <<Lit("login")>>,           TRUE,  FALSE, <<>>, FALSE),
       Route("home",    <<Lit("home")>>,            TRUE,  TRUE,  <<>>, TRUE) >>

TableBrokenMiddle ==
    << Route("login",   <<Lit("login")>>,           TRUE,  FALSE, <<>>, FALSE),
       Route("profile", <<Lit("profile")>>,         TRUE,  FALSE, <<"isAuthenticated">>, TRUE),
       Route("broken",  <<Lit("shop"), Malformed>>, TRUE,  FALSE, <<>>, FALSE),
       Route("home",    <<Lit("home")>>,            TRUE,  TRUE,  <<>>, TRUE) >>

MalformedTables == {TableBrokenFirst, TableBrokenMiddle}

MalformedPaths ==
    { LoginPath, ProfilePath, HomePath, NowherePath, Str("abs", <<"login">>, TRUE) }

MalformedRedirects == {LoginPath, HomePath}

InitMalformed ==
    /\ routes \in MalformedTables
    /\ layout = register(routes)
    /\ call = [c \in CallIds |-> IdleCall]
    /\ log = [c \in CallIds |-> <<>>]
    /\ host = <<>>
    /\ idCounter = 0
    /\ modals = <<>>
    /\ registered = {}
    /\ reg = NewRegistration("none", <<>>, FALSE)
    /\ linking = NoLinking

NextMalformed ==
    \/ \E c \in CallIds, path \in MalformedPaths, passProps \in PassProps :
            open(c, path, passProps)
    \/ \E c \in CallIds : runGuards(c)
    \/ \E c \in CallIds : cancel(c)
    \/ \E c \in CallIds, path \in MalformedRedirects : redirect(c, path)
    \/ \E c \in CallIds, outcome \in {"ok", "throw"} : guardSettled(c, outcome)
    \/ \E c \in CallIds : guardsReturned(c)
    \/ \E c \in CallIds : action(c)
    \/ \E c \in CallIds, outcome \in {"ok", "throw", "reject"} : actionSettled(c, outcome)
    \/ \E c \in CallIds : navigate(c)
    \/ \E c \in CallIds, ok \in BOOLEAN : nativeSettled(c, ok)

SpecMalformed == InitMalformed /\ [][NextMalformed]_vars

-----------------------------------------------------------------------------
(* open on a Route Table with a tab route that has no screen
   (src/unnamed/part_016, src/packages/router/src/router.tsx) *)

PromoPath == Str("abs", <<"promo">>, FALSE)

\* 'promo' carries bottomTab options and an action but no Component
TableGhostTab ==
    << Route("promo",   <<Lit("promo")>>,   FALSE, TRUE,  <<>>, TRUE),
       Route("home",    <<Lit("home")>>,    TRUE,  TRUE,  <<>>, FALSE),
       Route("login",   <<Lit("login")>>,   TRUE,  FALSE, <<>>, FALSE),
       Route("account", <<Lit("account")>>, TRUE,  TRUE,  <<"isAuthenticated">>, TRUE) >>

TabPaths == {PromoPath, HomePath, LoginPath, AccountPath}

TabRedirects == {LoginPath, HomePath}

InitTabs ==
    /\ routes = TableGhostTab
    /\ layout = register(routes)
    /\ call = [c \in CallIds |-> IdleCall]
    /\ log = [c \in CallIds |-> <<>>]
    /\ host = <<>>
    /\ idCounter = 0
    /\ modals = <<>>
    /\ registered = {}
    /\ reg = NewRegistration("none", <<>>, FALSE)
    /\ linking = NoLinking

NextTabs ==
    \/ \E c \in CallIds, path \in TabPaths, passProps \in PassProps :
            open(c, path, passProps)
    \/ \E c \in CallIds : runGuards(c)
    \/ \E c \in CallIds : cancel(c)
    \/ \E c \in CallIds, path \in TabRedirects : redirect(c, path)
    \/ \E c \in CallIds, outcome \in {"ok", "throw"} : guardSettled(c, outcome)
    \/ \E c \in CallIds : guardsReturned(c)
    \/ \E c \in CallIds : action(c)
    \/ \E c \in CallIds, outcome \in {"ok", "throw", "reject"} : actionSettled(c, outcome)
    \/ \E c \in CallIds : navigate(c)
    \/ \E c \in CallIds, ok \in BOOLEAN : nativeSettled(c, ok)

SpecTabs == InitTabs /\ [][NextTabs]_vars

-----------------------------------------------------------------------------
(* useNavigator().push called by a screen, next to open (src/unnamed/part_016) *)

\* a screen calls push(path, passProps, options): the lookup on the string
\* as given, no match returns, a match returns Navigation.push(...)
useNavigator_push(c, path, passProps) ==
    LET cmds == push(c, path, passProps)
    IN  /\ call[c].pc = "idle"
        /\ host' = host \o cmds
        /\ call' = [call EXCEPT ![c] =
                [@ EXCEPT !.impl = "push", !.path = path, !.passProps = passProps,
                          !.route = find(routes, path),
                          !.pc = IF cmds = <<>> THEN "done" ELSE "native",
                          !.result = IF cmds = <<>> THEN "fulfilled" ELSE "pending"]]
        /\ UNCHANGED <<routes, layout, reg, linking, log, idCounter, modals, registered>>

\* the native host settles the promise push returned
useNavigator_pushSettled(c, ok) ==
    /\ call[c].pc = "native"
    /\ call[c].impl = "push"
    /\ call' = [call EXCEPT ![c].pc = "done",
                            ![c].result = IF ok THEN "fulfilled" ELSE "rejected"]
    /\ UNCHANGED <<routes, layout, reg, linking, log, host, idCounter, modals, registered>>

\* strings a screen passes to push: guarded routes, a route with an action,
\* a path no route matches, a path with a query string
PushPaths ==
    { ProfilePath, AccountPath, SalePath, NowherePath, Str("abs", <<"login">>, TRUE) }

\* the open the pushes are set against
PushOpenPaths == {ProfilePath}

NextPush ==
    \/ \E c \in ConcurrentCallIds, path \in PushPaths, passProps \in BOOLEAN :
            useNavigator_push(c, path, passProps)
    \/ \E c \in ConcurrentCallIds, ok \in BOOLEAN : useNavigator_pushSettled(c, ok)
    \/ \E c \in ConcurrentCallIds, path \in PushOpenPaths, passProps \in PassProps :
            open(c, path, passProps)
    \/ \E c \in ConcurrentCallIds : runGuards(c)
    \/ \E c \in ConcurrentCallIds : cancel(c)
    \/ \E c \in ConcurrentCallIds, path \in ConcurrentRedirects : redirect(c, path)
    \/ \E c \in ConcurrentCallIds, outcome \in {"ok", "throw"} : guardSettled(c, outcome)
    \/ \E c \in ConcurrentCallIds : guardsReturned(c)
    \/ \E c \in ConcurrentCallIds : action(c)
    \/ \E c \in ConcurrentCallIds, outcome \in {"ok", "throw", "reject"} :
            actionSettled(c, outcome)
    \/ \E c \in ConcurrentCallIds : navigate(c)
    \/ \E c \in ConcurrentCallIds, ok \in BOOLEAN : nativeSettled(c, ok)

SpecPush == InitConcurrent /\ [][NextPush]_vars

-----------------------------------------------------------------------------
(* useLinking (src/unnamed/part_016; the same code in hooks.ts) *)

\* what Linking hands to the callback: no URL, a string `new URL` rejects,
\* deep links with and without a query string
LinkUrls ==
    { [kind |-> "null", str |-> NoStr],
      [kind |-> "invalid", str |-> Str("rel", <<"login">>, FALSE)],
      [kind |-> "url", str |-> Str("url", <<"login">>, TRUE)],
      [kind |-> "url", str |-> Str("url", <<"home">>, FALSE)] }

\* callback({url}): nothing for no URL; new URL(url) throwing is caught;
\* else navigator.open(parsedURL.pathname + parsedURL.search)
callback(l, url, source) ==
    IF url.kind # "url" THEN l
    ELSE [l EXCEPT !.opened =
             Append(@, [ path |-> Str("abs", url.str.segs, url.str.query),
                         source |-> source, mounted |-> l.mounted = "yes" ])]

\* the effect of useLinking runs at mount: Linking.getInitialURL() is
\* started and awaited, the 'url' listener is added
useLinking ==
    /\ linking.mounted = "no"
    /\ linking' = [linking EXCEPT !.mounted = "yes", !.initialURL = "pending",
                                  !.subscribed = TRUE]
    /\ UNCHANGED <<routes, layout, reg, call, log, host, idCounter, modals, registered>>

\* the promise of Linking.getInitialURL() settles: fulfilled with a URL or
\* null (the callback runs) or rejected (caught)
getInitialURLSettled(url, ok) ==
    /\ linking.initialURL = "pending"
    /\ linking' = IF ok
                  THEN callback([linking EXCEPT !.initialURL = "settled"],
                                url, "initial")
                  ELSE [linking EXCEPT !.initialURL = "settled"]
    /\ UNCHANGED <<routes, layout, reg, call, log, host, idCounter, modals, registered>>

\* the native host raises a 'url' event: the callback runs while the
\* subscription exists
urlEvent(url) ==
    /\ linking.events < MaxUrlEvents
    /\ linking' = IF linking.subscribed
                  THEN callback([linking EXCEPT !.events = @ + 1], url, "event")
                  ELSE [linking EXCEPT !.events = @ + 1]
    /\ UNCHANGED <<routes, layout, reg, call, log, host, idCounter, modals, registered>>

\* the component unmounts: the cleanup of the effect removes the
\* subscription
unmount ==
    /\ linking.mounted = "yes"
    /\ linking' = [linking EXCEPT !.mounted = "gone", !.subscribed = FALSE]
    /\ UNCHANGED <<routes, layout, reg, call, log, host, idCounter, modals, registered>>

NextLinking ==
    \/ useLinking
    \/ \E url \in LinkUrls, ok \in BOOLEAN : getInitialURLSettled(url, ok)
    \/ \E url \in LinkUrls : urlEvent(url)
    \/ unmount

SpecLinking == Init /\ [][NextLinking]_vars

-----------------------------------------------------------------------------
(* Vocabulary of the properties *)

\* the push / pop-to-root commands open call c handed to the native host
NavCmds(c) ==
    SelectSeq(host, LAMBDA m : m.by = c /\ m.cmd \in {"push", "popToRoot"})

\* those of them emitted by the resolution at redirect hop h
NavCmdsAt(c, h) ==
    SelectSeq(host, LAMBDA m : m.by = c /\ m.hop = h
                               /\ m.cmd \in {"push", "popToRoot"})

\* the string the route lookup of an open is made on
LookupStr(impl, str) ==
    IF impl = "part_016" THEN createAppURL(str).pathname ELSE str

\* r is the first route of the table, in declaration order, matching str
FirstMatch(table, str, r) ==
    /\ r \in 1..Len(table)
    /\ match(table[r].path, str)
    /\ \A j \in 1..(r - 1) : ~match(table[j].path, str)

NoMatch(table, str) == \A j \in 1..Len(table) : ~match(table[j].path, str)

\* 0-based ordinal of route r among the tab-bound routes of the table
TabOrdinal(table, r) == Cardinality({ j \in 1..(r - 1) : table[j].bottomTab })

\* events of call c logged after position i by the resolution at hop h
LaterAt(c, i, h, kinds) ==
    { j \in DOMAIN log[c] : j > i /\ log[c][j].hop = h /\ log[c][j].kind \in kinds }

\* the guard chain of the current resolution of call c has run to its end,
\* every guard fulfilled, none called cancel or redirect
GuardsProceed(c) ==
    /\ call[c].pc \in {"action", "inAction", "navigate", "native", "done"}
    /\ call[c].route # 0
    /\ \A j \in DOMAIN log[c] : log[c][j].hop = call[c].hop =>
          /\ log[c][j].kind \notin {"cancel", "redirect"}
          /\ log[c][j].kind = "settled" => log[c][j].args = {<<"outcome", "ok">>}

-----------------------------------------------------------------------------
(* C1 .. C9: open *)

\* C1: once a guard of the matched route has called cancel(), no later guard
\* of that chain is invoked, the matched route's action is not invoked, and
\* the open call emits no push and no pop-to-root.
C1_CancelStopsNavigation ==
    \A c \in CallIds : \A i \in DOMAIN log[c] :
        log[c][i].kind = "cancel" =>
            /\ LaterAt(c, i, log[c][i].hop, {"guard", "action"}) = {}
            /\ NavCmds(c) = <<>>

\* C2: a guard that throws or rejects without having called cancel or
\* redirect acts as a cancel: no later guard, no action, no navigation
\* intent, and open's promise does not reject.
C2_GuardFailureIsCancel ==
    \A c \in CallIds : \A i \in DOMAIN log[c] :
        ( /\ log[c][i].kind = "settled"
          /\ log[c][i].args = {<<"outcome", "throw">>}
          /\ i > 1
          /\ log[c][i - 1].kind = "guard" ) =>
            /\ LaterAt(c, i, log[c][i].hop, {"guard", "action"}) = {}
            /\ NavCmdsAt(c, log[c][i].hop) = <<>>
            /\ call[c].result # "rejected"

\* C3: once a guard has called redirect(P), no later guard of the original
\* chain runs, the original route's action is not invoked and its screen is
\* neither pushed nor tab-selected; when the original resolution is over,
\* open has been re-invoked on P, and the guards of P's route run from the
\* first one.
C3_RedirectRestartsResolution ==
    \A c \in CallIds : \A i \in DOMAIN log[c] :
        log[c][i].kind = "redirect" =>
            LET h == log[c][i].hop
            IN  /\ LaterAt(c, i, h, {"guard", "action"}) = {}
                /\ NavCmdsAt(c, h) = <<>>
                /\ (call[c].hop > h \/ call[c].pc = "done") =>
                      \E j \in LaterAt(c, i, h + 1, {"open"}) :
                            /\ log[c][j].str = log[c][i].str
                            /\ \A k \in LaterAt(c, j, h + 1, {"guard"}) :
                                 LaterAt(c, j, h + 1, {"guard"}) \cap 1..(k - 1) = {}
                                    => log[c][k].gi = 1

\* C4: first match wins.  In every resolution the matched route is the first
\* route in declaration order whose pattern matches; the guards and the
\* action that run are that route's, every intent names that route, and a
\* proceeding open on a path that matches the patterns of several routes
\* navigates to the first of them.
C4_FirstMatchWins ==
    \A c \in CallIds : \A i \in DOMAIN log[c] :
        log[c][i].kind = "open" =>
            LET e == log[c][i]
                str == LookupStr(call[c].impl, e.str)
            IN  /\ IF NoMatch(routes, str) THEN e.route = 0
                   ELSE FirstMatch(routes, str, e.route)
                /\ \A j \in LaterAt(c, i, e.hop, {"guard", "action"}) :
                        log[c][j].route = e.route
                /\ \A k \in DOMAIN host :
                        (host[k].by = c /\ host[k].hop = e.hop) =>
                            /\ e.route # 0
                            /\ host[k].cmd = "push" =>
                                    host[k].name = routes[e.route].name
                            /\ host[k].cmd = "popToRoot" =>
                                    /\ routes[e.route].bottomTab
                                    /\ host[k].tabIndex = TabOrdinal(routes, e.route)
                /\ ( /\ call[c].impl = "part_016"
                     /\ call[c].pc \in {"native", "done"}
                     /\ call[c].hop = e.hop
                     /\ GuardsProceed(c)
                     /\ routes[e.route].hasComponent
                     /\ match(routes[e.route].path, e.str) ) =>
                        Len(NavCmdsAt(c, e.hop)) = 1

\* an open on a path matching two patterns has navigated
C4_Witness ==
    \E c \in CallIds :
        /\ call[c].impl = "part_016"
        /\ call[c].pc = "done"
        /\ call[c].route # 0
        /\ \E r2 \in (call[c].route + 1)..Len(routes) :
                match(routes[r2].path, call[c].path)
        /\ Len(NavCmdsAt(c, call[c].hop)) = 1

\* C5: a proceeding open whose matched route is tab-bound and has a screen
\* emits exactly one pop-to-root and no push, and the tab index is the
\* 0-based ordinal of the route among the tab-bound routes of the table.
C5_TabIndexIsTabOrdinal ==
    \A c \in CallIds :
        ( /\ call[c].impl = "part_016"
          /\ call[c].pc \in {"native", "done"}
          /\ GuardsProceed(c)
          /\ routes[call[c].route].bottomTab
          /\ routes[call[c].route].hasComponent ) =>
            /\ Len(NavCmds(c)) = 1
            /\ NavCmds(c)[1].cmd = "popToRoot"
            /\ NavCmds(c)[1].tabIndex = TabOrdinal(routes, call[c].route)

\* the third tab, declared seventh, was selected with index 2
C5_Witness ==
    \E c \in CallIds :
        /\ call[c].impl = "part_016"
        /\ call[c].pc = "done"
        /\ GuardsProceed(c)
        /\ call[c].route = 7
        /\ routes[7].bottomTab
        /\ Len(NavCmds(c)) = 1
        /\ NavCmds(c)[1].tabIndex = 2

\* C6: a proceeding open whose matched route has an action and no screen
\* invokes the action with the extracted path parameters and emits no
\* intent; a matched route that has a screen is not stopped there: its
\* intent is emitted.
C6_ActionOnlyRouteStops ==
    \A c \in CallIds :
        ( /\ call[c].pc \in {"native", "done"}
          /\ GuardsProceed(c)
          /\ \A j \in DOMAIN log[c] : log[c][j].kind = "actionSettled" =>
                log[c][j].args = {<<"outcome", "ok">>} ) =>
            LET matchedRoute == routes[call[c].route]
                str == LookupStr(call[c].impl, call[c].path)
            IN  /\ (matchedRoute.hasAction /\ ~matchedRoute.hasComponent) =>
                    /\ \E j \in DOMAIN log[c] :
                            /\ log[c][j].kind = "action"
                            /\ log[c][j].hop = call[c].hop
                            /\ log[c][j].args = params(matchedRoute.path, str)
                    /\ NavCmds(c) = <<>>
                /\ (matchedRoute.hasComponent /\ match(matchedRoute.path, call[c].path)) =>
                    Len(NavCmdsAt(c, call[c].hop)) = 1

\* C7: for every form of the path given to open (plain, relative, with a
\* query string, fully qualified), a proceeding open whose matched route is
\* a non-tab route with a screen emits exactly one push, naming that route,
\* and no pop-to-root.
C7_PushForEveryPathForm ==
    \A c \in CallIds :
        ( /\ call[c].impl = "part_016"
          /\ call[c].pc \in {"native", "done"}
          /\ GuardsProceed(c)
          /\ ~routes[call[c].route].bottomTab
          /\ routes[call[c].route].hasComponent ) =>
            /\ Len(NavCmdsAt(c, call[c].hop)) = 1
            /\ NavCmdsAt(c, call[c].hop)[1].cmd = "push"
            /\ NavCmdsAt(c, call[c].hop)[1].name = routes[call[c].route].name

\* C8: when the matched route's action throws or rejects, open emits the
\* intent it emits when the action succeeds, and its promise is not
\* rejected by the action (only a rejection by the native host, after the
\* intent was emitted, may reject it).
C8_ActionFailureSwallowed ==
    \A c \in CallIds :
        ( /\ call[c].pc \in {"native", "done"}
          /\ \E j \in DOMAIN log[c] :
                /\ log[c][j].kind = "actionSettled"
                /\ log[c][j].hop = call[c].hop
                /\ log[c][j].args # {<<"outcome", "ok">>} ) =>
            /\ NavCmdsAt(c, call[c].hop) =
                    IF call[c].impl = "part_016" THEN intent(c) ELSE hooks_intent(c)
            /\ call[c].result = "rejected" => NavCmdsAt(c, call[c].hop) # <<>>

\* C9: an open on a path no route matches is one step that ends the call:
\* nothing is logged but the lookup (no guard, no action), nothing is
\* handed to the native host, the promise is fulfilled, and the Route Table
\* and the Layout Tree are left as they were.
C9_Step ==
    \A c \in CallIds :
        ( /\ call[c].pc = "idle"
          /\ call'[c].pc # "idle"
          /\ NoMatch(routes, LookupStr(call'[c].impl, call'[c].path)) ) =>
            /\ call'[c].pc = "done"
            /\ call'[c].result = "fulfilled"
            /\ Len(log'[c]) = 1
            /\ log'[c][1].kind = "open"
            /\ host' = host
            /\ routes' = routes
            /\ layout' = layout

C9_Done ==
    \A c \in CallIds : call[c].pc = "done" => (call'[c] = call[c] /\ log'[c] = log[c])

C9_NoMatchIsNoOp == [][C9_Step /\ C9_Done]_vars

\* both versions of open have returned from a path that matches no route
C9_Witness ==
    \E c \in CallIds :
        /\ call[c].pc = "done"
        /\ call[c].path = NowherePath
        /\ call[c].route = 0
        /\ call[c].result = "fulfilled"
        /\ Len(log[c]) = 1

-----------------------------------------------------------------------------
(* C10: modal settle *)

\* what the promise of showModal is settled to by one resolve / reject call
\* made while it is pending
OutcomeOf(settleCall) ==
    IF settleCall.kind = "resolve" THEN Fulfilled(settleCall.value) ELSE Rejected

\* C10: after the first resolve(v) or reject() of a modal, further resolve /
\* reject calls in any order and number leave the outcome of the promise
\* that of the first call, and each of them runs to its end (it reaches its
\* dismissModal: none throws).
C10_SettleIsIdempotent ==
    \A m \in DOMAIN modals :
        /\ modals[m].calls # <<>> => modals[m].promise = OutcomeOf(modals[m].calls[1])
        /\ modals[m].calls = <<>> => modals[m].promise = Pending
        /\ modals[m].dismissCmds = Len(modals[m].calls)

\* one modal resolved with "a" then resolved with "b", another rejected
\* then resolved: both keep the outcome of their first call
C10_Witness ==
    \E m, n \in DOMAIN modals :
        /\ Len(modals[m].calls) = 2
        /\ modals[m].calls[1].kind = "resolve" /\ modals[m].calls[1].value = "a"
        /\ modals[m].calls[2].kind = "resolve" /\ modals[m].calls[2].value = "b"
        /\ modals[m].promise = Fulfilled("a")
        /\ Len(modals[n].calls) = 2
        /\ modals[n].calls[1].kind = "reject"
        /\ modals[n].calls[2].kind = "resolve"
        /\ modals[n].promise = Rejected

-----------------------------------------------------------------------------
(* C11 .. C14: modals *)

\* modal m receives a resolve / reject call in this step
SettleCallOn(m) == Len(modals'[m].calls) > Len(modals[m].calls)

\* C11: a resolve or reject call on a modal that is already settled and
\* dismissed changes nothing of the modal and hands no further
\* dismiss-modal command to the native host.
C11_SettledCallIsNoOp ==
    [][ \A m \in DOMAIN modals :
            ( /\ modals[m].promise # Pending
              /\ ~modals[m].displayed
              /\ SettleCallOn(m) )
            => /\ modals'[m].promise = modals[m].promise
               /\ modals'[m].displayed = modals[m].displayed
               /\ modals'[m].dismissCmds = modals[m].dismissCmds ]_vars

\* C12: the promise of every showModal call is settled by the first settle
\* call (fulfilled with v by resolve(v), rejected by reject()), which hands
\* a dismiss-modal command for the modal to the host; and no modal that is
\* off display again, whoever dismissed it, has its promise still pending.
C12_SettlesExactlyOnce ==
    \A m \in DOMAIN modals :
        /\ modals[m].calls # <<>>
           => /\ modals[m].promise = OutcomeOf(modals[m].calls[1])
              /\ modals[m].dismissCmds >= 1
        /\ ~modals[m].displayed => modals[m].promise # Pending

\* C13: every showModal call registers its screen under a name that no
\* earlier showModal call of any navigator instance used, and the counter
\* behind the names never decreases (and grows with every call).
C13_ModalNamesAreUnique ==
    [][ /\ idCounter' >= idCounter
        /\ \A m \in DOMAIN modals' \ DOMAIN modals :
              /\ idCounter' > idCounter
              /\ modals'[m].name \notin registered
              /\ modals'[m].name \in registered'
              /\ \A n \in DOMAIN modals : modals[n].name # modals'[m].name ]_vars

\* two modals shown by different navigator instances, a settle call made
\* between or after them, under different names
C13_Witness ==
    /\ Len(modals) = 2
    /\ modals[1].by # modals[2].by
    /\ modals[1].name # modals[2].name
    /\ modals[1].calls # <<>>
    /\ Cardinality(registered) = 2

\* C14: a resolve / reject call on modal m settles the promise of m only
\* and dismisses the component of m only: every other modal is left as it
\* was, and a modal no settle call was made on has its promise pending and
\* has had no dismiss-modal command.
C14_ModalsAreIndependent ==
    [][ /\ \A m \in DOMAIN modals :
              SettleCallOn(m)
              => /\ \A n \in DOMAIN modals \ {m} : modals'[n] = modals[n]
                 /\ modals'[m].dismissCmds = modals[m].dismissCmds + 1
                 /\ ~modals'[m].displayed
                 /\ modals'[m].promise # Pending
        /\ \A n \in DOMAIN modals' :
              modals'[n].calls = <<>>
              => modals'[n].promise = Pending /\ modals'[n].dismissCmds = 0 ]_vars

\* modal 1 is on display since before modal 2 was shown; modal 2 has been
\* resolved or rejected and dismissed, modal 1 is still pending on display
C14_Witness ==
    /\ Len(modals) = 2
    /\ modals[1].displayed
    /\ modals[1].calls = <<>>
    /\ modals[1].promise = Pending
    /\ modals[2].calls # <<>>
    /\ modals[2].promise # Pending
    /\ modals[2].dismissCmds = Len(modals[2].calls)

-----------------------------------------------------------------------------
(* C15 .. C18: register and the root layout *)

\* the route list has a route with a screen
HasScreen(table) == \E i \in 1..Len(table) : table[i].hasComponent

\* the name of the first declared route that has a screen
FirstScreen(table) ==
    LET i == CHOOSE j \in 1..Len(table) :
                 /\ table[j].hasComponent
                 /\ \A h \in 1..(j - 1) : ~table[h].hasComponent
    IN  table[i].name

\* the hand-overs of the root layout made by listener run k
HandedBy(k) == { i \in DOMAIN reg.setRoots : reg.setRoots[i].run = k }

\* C15: on each app-launched event the root layout is handed to the native
\* host once the hook has settled and not before: a run that awaits its
\* hook has handed nothing, a run that is over (the hook fulfilled,
\* rejected or threw, or there is no hook) has handed the root once.
C15_RootAfterHookSettled ==
    \A k \in DOMAIN reg.runs :
        /\ reg.runs[k].state = "awaiting" => HandedBy(k) = {}
        /\ reg.runs[k].state # "awaiting" => Cardinality(HandedBy(k)) = 1

\* C16: the Layout Tree of one register call is handed to the native host
\* at most once over the whole run, by an app-launched event, and only
\* after register has processed all routes.
C16_RootHandedExactlyOnce ==
    /\ Len(reg.setRoots) <= 1
    /\ \A i \in DOMAIN reg.setRoots :
          /\ reg.setRoots[i].run \in DOMAIN reg.runs
          /\ reg.setRoots[i].registered

\* C17: after register, when no route produced a tab entry the root is a
\* single stack on the first declared route that has a screen, and the root
\* names registered components only.
C17_FallbackRootIsFirstScreen ==
    reg.pc = "registered"
    => /\ (reg.root.kind # "bottomTabs" /\ HasScreen(reg.routes))
          => reg.root = [kind |-> "stack", children |-> <<FirstScreen(reg.routes)>>]
       /\ \A i \in DOMAIN reg.root.children : reg.root.children[i] \in reg.components

\* C18: register on zero routes, or on routes none of which has a screen,
\* fails: it does not return normally, arms no listener, and no root is
\* ever handed to the native host.
C18_NoScreenFailsAtRegistration ==
    (reg.pc \in {"registered", "failed"} /\ ~HasScreen(reg.routes))
    => /\ reg.pc = "failed"
       /\ ~reg.listener
       /\ reg.setRoots = <<>>

-----------------------------------------------------------------------------
(* C19, C20: the guard chain *)

\* the events of one guard-chain execution (one hop of open call c) that
\* precede position i of the log
ChainBefore(c, i, kinds) ==
    { j \in 1..(i - 1) : /\ log[c][j].hop = log[c][i].hop
                         /\ log[c][j].kind \in kinds }

\* C19: within one guard-chain execution the guards are invoked in array
\* order, each once: the k-th invocation is of guard k, it follows the
\* settling of guard k - 1, and nothing but control calls of that guard
\* comes between its invocation and its settling; open does not move on
\* while a guard is awaited.
C19_GuardsInOrderOneAtATime ==
    \A c \in CallIds :
        /\ \A i \in DOMAIN log[c] :
              log[c][i].kind = "guard"
              => /\ log[c][i].gi = Cardinality(ChainBefore(c, i, {"guard"})) + 1
                 /\ log[c][i].gi <= Len(routes[log[c][i].route].guards)
                 /\ Cardinality(ChainBefore(c, i, {"settled"})) = log[c][i].gi - 1
        /\ \A j \in 2..Len(log[c]) :
              log[c][j - 1].kind \in {"guard", "cancel", "redirect"}
              => /\ log[c][j].kind \in {"cancel", "redirect", "settled"}
                 /\ log[c][j].hop = log[c][j - 1].hop
                 /\ log[c][j].gi = log[c][j - 1].gi
        /\ ( /\ log[c] # <<>>
             /\ log[c][Len(log[c])].kind \in {"guard", "cancel", "redirect"} )
           => call[c].pc = "inGuard"

\* both guards of a route were invoked and settled, the first of them by
\* throwing
C19_Witness ==
    \E c \in CallIds : \E i, j, k \in DOMAIN log[c] :
        /\ i < j /\ j < k
        /\ log[c][i].kind = "settled" /\ log[c][i].gi = 1
        /\ <<"outcome", "throw">> \in log[c][i].args
        /\ log[c][j].kind = "guard" /\ log[c][j].gi = 2
        /\ log[c][k].kind = "settled" /\ log[c][k].gi = 2
        /\ log[c][i].hop = log[c][j].hop /\ log[c][j].hop = log[c][k].hop

\* the decision a control call asks for
DecisionOf(ev) == IF ev.kind = "cancel" THEN False ELSE Path(ev.str)

\* C20: the decision of a guard chain is the one its first cancel() /
\* redirect(path) call asked for: a later control call of the same guard
\* does not change what runGuards is going to return.
C20_FirstDecisionIsLatched ==
    \A c \in CallIds :
        call[c].pc \in {"inGuard", "runGuards"}
        => LET ctl == { i \in DOMAIN log[c] :
                           /\ log[c][i].hop = call[c].hop
                           /\ log[c][i].kind \in {"cancel", "redirect"} }
           IN  IF ctl = {}
               THEN call[c].redirectPath = Undefined
               ELSE \E i \in ctl :
                       /\ \A j \in ctl : i <= j
                       /\ call[c].redirectPath = DecisionOf(log[c][i])

-----------------------------------------------------------------------------
(* C21, C22: open calls in flight at the same time *)

\* open call c makes a control call (cancel / redirect) in this step
ControlStep(c) ==
    /\ Len(log'[c]) = Len(log[c]) + 1
    /\ log'[c][Len(log'[c])].kind \in {"cancel", "redirect"}

\* the decision the running chain of a call holds according to the control
\* calls of that call alone: the one its own last control call asked for
OwnDecision(cr, lg) ==
    LET ctl == { i \in DOMAIN lg : /\ lg[i].hop = cr.hop
                                   /\ lg[i].kind \in {"cancel", "redirect"} }
    IN  IF ctl = {} THEN Undefined
        ELSE LET last == CHOOSE i \in ctl : \A j \in ctl : j <= i
             IN  IF lg[last].kind = "cancel" THEN False ELSE Path(lg[last].str)

\* C21: a cancel() or redirect() made by a guard of one open call leaves
\* every other open call (its decision, its position, the guards and
\* actions it invoked) and the commands at the host as they were, and the
\* decision every chain holds is the one its own control calls produced.
C21_ControlCallsAreLocal ==
    [][ /\ \A c \in DOMAIN call :
              ControlStep(c)
              => /\ \A d \in DOMAIN call \ {c} :
                        call'[d] = call[d] /\ log'[d] = log[d]
                 /\ host' = host
        /\ \A d \in DOMAIN call :
              call'[d].pc \in {"inGuard", "runGuards"}
              => call'[d].redirectPath = OwnDecision(call'[d], log'[d]) ]_vars

\* both calls are awaiting a guard; call 1 has cancelled, call 2 has made no
\* control call and holds no decision
C21_Witness ==
    /\ DOMAIN call = ConcurrentCallIds
    /\ call[1].pc = "inGuard" /\ call[1].redirectPath = False
    /\ call[2].pc = "inGuard" /\ call[2].ncalls = 0
    /\ call[2].redirectPath = Undefined

\* C22: open calls are not mutually excluded: while open a is suspended
\* awaiting a guard, every step of another open call b (its start, its
\* guards, its action, its navigation command) can be taken.
C22_NoMutualExclusion ==
    \A a \in DOMAIN call : \A b \in DOMAIN call \ {a} :
        call[a].pc = "inGuard"
        => /\ call[b].pc = "idle" => ENABLED open(b, ProfilePath, TRUE)
           /\ call[b].pc = "runGuards" => ENABLED (runGuards(b) \/ guardsReturned(b))
           /\ call[b].pc = "inGuard" => ENABLED guardSettled(b, "ok")
           /\ call[b].pc = "action" => ENABLED action(b)
           /\ call[b].pc = "inAction" => ENABLED actionSettled(b, "ok")
           /\ call[b].pc = "navigate" => ENABLED navigate(b)
           /\ call[b].pc = "native" => ENABLED nativeSettled(b, TRUE)

\* open 1, started first, is still awaiting its first guard and has handed
\* nothing to the host; open 2, started later, ran its guards and action
\* and its command is at the host
C22_Witness ==
    /\ DOMAIN call = ConcurrentCallIds
    /\ call[1].pc = "inGuard" /\ call[1].hop = 0 /\ call[1].gi = 1
    /\ call[2].pc = "done"
    /\ \E i \in DOMAIN log[2] : log[2][i].kind = "guard"
    /\ \E i \in DOMAIN log[2] : log[2][i].kind = "actionSettled"
    /\ host # <<>>
    /\ \A i \in DOMAIN host : host[i].by = 2

-----------------------------------------------------------------------------
(* C23: termination of open *)

\* every re-invocation of open (hop h > 0) is the following of a redirect
\* of the hop before, to the path that redirect named
RedirectsFollowed ==
    \A c \in CallIds : \A i \in DOMAIN log[c] :
        (log[c][i].kind = "open" /\ log[c][i].hop > 0)
        => \E j \in 1..(i - 1) :
              /\ log[c][j].kind = "redirect"
              /\ log[c][j].hop = log[c][i].hop - 1
              /\ log[c][j].str = log[c][i].str

-----------------------------------------------------------------------------
(* C24: malformed patterns *)

\* the first route with a well-formed pattern that matches, 0 for none:
\* the lookup in which a malformed pattern counts as a non-match
FailClosedFind(table, str) ==
    LET ms == { i \in 1..Len(table) :
                   ~matchThrows(table[i].path) /\ match(table[i].path, str) }
    IN  IF ms = {} THEN 0 ELSE CHOOSE i \in ms : \A j \in ms : i <= j

\* C24: route lookup fails closed.  Every lookup of open resolves to the
\* first well-formed route that matches, a malformed pattern counting as a
\* non-match, and open is not rejected by a lookup: only the rejection of a
\* command it handed to the native host rejects it.
C24_LookupFailsClosed ==
    \A c \in CallIds :
        /\ \A i \in DOMAIN log[c] :
              log[c][i].kind = "open"
              => log[c][i].route =
                    FailClosedFind(routes, createAppURL(log[c][i].str).pathname)
        /\ call[c].result = "rejected"
           => \E i \in DOMAIN host : host[i].by = c

-----------------------------------------------------------------------------
(* C25: modal registrations *)

\* C25: the registration of a dismissed modal no longer exists: the names
\* registered with the native host are those of the modals on display, as
\* many as are on display.
C25_RegistrationsAreReleased ==
    /\ registered = { modals[m].name : m \in { n \in DOMAIN modals : modals[n].displayed } }
    /\ Cardinality(registered) = Cardinality({ n \in DOMAIN modals : modals[n].displayed })

-----------------------------------------------------------------------------
(* C26: the action within open *)

\* the events of kind k open call c logged at hop h
EventsAt(c, h, kinds) ==
    { i \in DOMAIN log[c] : log[c][i].hop = h /\ log[c][i].kind \in kinds }

\* C26: in an open call (with guards) the matched route's action is invoked
\* at most once; when it is invoked the whole guard chain of the route has
\* run and settled and no guard asked to cancel or redirect; and no command
\* is handed to the native host before the action has settled.
C26_ActionAfterGuardsBeforeIntent ==
    \A c \in CallIds :
        call[c].impl = "part_016"
        => /\ Cardinality({ i \in DOMAIN log[c] : log[c][i].kind = "action" }) <= 1
           /\ \A i \in DOMAIN log[c] :
                 log[c][i].kind = "action"
                 => /\ Cardinality(EventsAt(c, log[c][i].hop, {"settled"}))
                          = Len(routes[log[c][i].route].guards)
                    /\ EventsAt(c, log[c][i].hop, {"cancel", "redirect"}) = {}
           /\ call[c].pc \in {"action", "inAction"} => NavCmds(c) = <<>>

-----------------------------------------------------------------------------
(* C27: the tab index and the Layout Tree *)

\* C27: the tab index open passes with pop-to-root for a tab-bound route is
\* the (0-based) position of the route's tab entry among the bottom-tab
\* children of the Layout Tree built by register, and lies within them.
C27_TabIndexMatchesLayout ==
    \A i \in DOMAIN host :
        host[i].cmd = "popToRoot"
        => /\ layout.kind = "bottomTabs"
           /\ host[i].tabIndex + 1 \in DOMAIN layout.children
           /\ layout.children[host[i].tabIndex + 1] = routes[call[host[i].by].route].name

-----------------------------------------------------------------------------
(* C28: push *)

\* C28: a direct push(path) invokes no guard and no action, and hands the
\* native host one push command for the first route the path matches,
\* whatever guards the route has (and nothing when no route matches).
C28_PushBypassesGuards ==
    \A c \in DOMAIN call :
        call[c].impl = "push"
        => /\ log[c] = <<>>
           /\ LET r == find(routes, call[c].path)
              IN  IF r = 0
                  THEN NavCmds(c) = <<>>
                  ELSE /\ Len(NavCmds(c)) = 1
                       /\ NavCmds(c)[1].cmd = "push"
                       /\ NavCmds(c)[1].name = routes[r].name
                       /\ NavCmds(c)[1].url = call[c].path
                       /\ NavCmds(c)[1].passProps = call[c].passProps

\* open('/profile') was cancelled by a guard and handed nothing to the
\* host; push('/profile') handed its push command for 'profile'
C28_Witness ==
    \E c, d \in DOMAIN call :
        /\ call[c].impl = "part_016" /\ call[c].path = ProfilePath
        /\ call[c].pc = "done" /\ call[c].redirectPath = False
        /\ NavCmds(c) = <<>>
        /\ call[d].impl = "push" /\ call[d].path = ProfilePath
        /\ Len(NavCmds(d)) = 1 /\ NavCmds(d)[1].name = "profile"

-----------------------------------------------------------------------------
(* C29: useLinking after unmount *)

\* C29: every open that useLinking makes is made while its component is
\* mounted: once the component has unmounted, neither a URL event nor the
\* initial-URL retrieval started at mount calls open.
C29_NoOpenAfterUnmount ==
    \A i \in DOMAIN linking.opened : linking.opened[i].mounted

-----------------------------------------------------------------------------
(* C30: a redirect carries neither passProps nor options *)

\* C30: when a guard redirects, open is re-invoked with the redirect path
\* only: whatever the resolution of the redirect target hands to the host
\* (a push or a tab selection) carries none of the passProps / options of
\* the original call, and the call frame of the re-invocation holds none.
C30_RedirectDropsPassProps ==
    /\ \A i \in DOMAIN host :
          (host[i].cmd \in {"push", "popToRoot"} /\ host[i].hop > 0)
              => host[i].passProps = FALSE
    /\ \A c \in CallIds : call[c].hop > 0 => call[c].passProps = FALSE

\* an open called with passProps was redirected, and the screen of the
\* redirect target was pushed without them
C30_Witness ==
    \E c \in CallIds : \E i \in DOMAIN host :
        /\ host[i].by = c /\ host[i].cmd = "push" /\ host[i].hop = 1
        /\ host[i].passProps = FALSE
        /\ \E j \in DOMAIN log[c] :
              /\ log[c][j].kind = "redirect" /\ log[c][j].hop = 0
        /\ \E j \in DOMAIN log[c] :
              /\ log[c][j].kind = "open" /\ log[c][j].hop = 1

====
